---- MODULE Spec2Model ----
(***************************************************************************)
(* Model of piston's touch input module (src/input/src/touch.rs):          *)
(* the Touch / TouchArgs data model, its constructors and accessors, and   *)
(* the TouchEvent bridge implemented for every GenericEvent container.     *)
(*                                                                         *)
(* f64 is modelled as a binary floating-point format with the IEEE 754     *)
(* structure (signed zeros, subnormals, infinities, NaN, round to nearest  *)
(* ties-to-even) but with Precision significand bits and exponents in      *)
(* -ExpRange..ExpRange instead of 53 bits and -1022..1023.                 *)
(***************************************************************************)
EXTENDS Integers, Sequences, FiniteSets, TLC

(***************************************************************************)
(* Bounds of the model.                                                    *)
(***************************************************************************)
Precision == 3
ExpRange == 2
MaxDevice == 1
MaxId == 1

(***************************************************************************)
(* f64: the value type of x, y, z, px, py, pz.                             *)
(* A finite magnitude is an integer number of quanta, the quantum being    *)
(* the smallest subnormal, 2^-(ExpRange + Precision - 1).                  *)
(***************************************************************************)
RECURSIVE Pow2(_)
Pow2(n) == IF n <= 0 THEN 1 ELSE 2 * Pow2(n - 1)

\* 1.0 in quanta
One == Pow2(ExpRange + Precision - 1)
\* the smallest normal number in quanta
MinNormal == Pow2(Precision - 1)
\* the largest finite number in quanta
MaxMag == (Pow2(Precision) - 1) * Pow2(2 * ExpRange)
\* the unit in the last place of the largest binade
MaxUlp == Pow2(2 * ExpRange)

\* the binade of k: the least j with k / 2^j < 2^Precision
RECURSIVE ExpOf(_)
ExpOf(k) == IF k < Pow2(Precision) THEN 0 ELSE 1 + ExpOf(k \div 2)

\* k quanta is a value of the format
IsMag(k) ==
    /\ k >= 0
    /\ k <= MaxMag
    /\ k % Pow2(ExpOf(k)) = 0

Mags == {k \in 0..MaxMag : IsMag(k)}

\* the significand of a representable magnitude is even
EvenMag(k) == (k \div Pow2(ExpOf(k))) % 2 = 0

F64Fin(neg, mag) == [cls |-> "fin", neg |-> neg, mag |-> mag]
F64Inf(neg) == [cls |-> "inf", neg |-> neg, mag |-> 0]
F64NaN == [cls |-> "nan", neg |-> FALSE, mag |-> 0]
F64Zero == F64Fin(FALSE, 0)
F64One == F64Fin(FALSE, One)

F64 == {F64Fin(s, m) : s \in BOOLEAN, m \in Mags}
           \cup {F64Inf(s) : s \in BOOLEAN} \cup {F64NaN}

IsNaN(a) == a.cls = "nan"

\* f64's PartialEq: NaN differs from everything, -0.0 == 0.0
F64Eq(a, b) ==
    /\ ~IsNaN(a)
    /\ ~IsNaN(b)
    /\ \/ a = b
       \/ a.cls = "fin" /\ b.cls = "fin" /\ a.mag = 0 /\ b.mag = 0

F64Abs(a) == IF IsNaN(a) THEN a ELSE [a EXCEPT !.neg = FALSE]

\* the largest value of the format that is at most q quanta: q with the
\* bits below its binade's unit cleared
Truncate(q) == (q \div Pow2(ExpOf(q))) * Pow2(ExpOf(q))

\* the exact value num/den quanta (num >= 0, den > 0) rounded to nearest,
\* ties to even, overflowing to infinity
RoundMag(neg, num, den) ==
    IF 2 * num >= den * (2 * MaxMag + MaxUlp)
    THEN F64Inf(neg)
    ELSE LET lo == Truncate(num \div den)
             hi == lo + Pow2(ExpOf(num \div den))
         IN  IF 2 * num < (lo + hi) * den THEN F64Fin(neg, lo)
             ELSE IF 2 * num > (lo + hi) * den THEN F64Fin(neg, hi)
             ELSE IF EvenMag(lo) THEN F64Fin(neg, lo)
             ELSE F64Fin(neg, hi)

\* a * b
F64Mul(a, b) ==
    IF IsNaN(a) \/ IsNaN(b) THEN F64NaN
    ELSE IF a.cls = "inf" \/ b.cls = "inf"
    THEN IF (a.cls = "fin" /\ a.mag = 0) \/ (b.cls = "fin" /\ b.mag = 0)
         THEN F64NaN
         ELSE F64Inf(a.neg # b.neg)
    ELSE RoundMag(a.neg # b.neg, a.mag * b.mag, One)

\* the signed number of quanta of a finite value
Signed(a) == IF a.neg THEN 0 - a.mag ELSE a.mag

\* a + b
F64Add(a, b) ==
    IF IsNaN(a) \/ IsNaN(b) THEN F64NaN
    ELSE IF a.cls = "inf" /\ b.cls = "inf"
    THEN IF a.neg = b.neg THEN a ELSE F64NaN
    ELSE IF a.cls = "inf" THEN a
    ELSE IF b.cls = "inf" THEN b
    ELSE LET s == Signed(a) + Signed(b)
         IN  IF s = 0 THEN F64Fin(a.neg /\ b.neg, 0)
             ELSE IF s < 0 THEN RoundMag(TRUE, 0 - s, 1)
             ELSE RoundMag(FALSE, s, 1)

\* the integer square root of n, r being a lower and r + w an upper bound
RECURSIVE ISqrtFrom(_, _, _)
ISqrtFrom(n, r, w) ==
    IF w = 0 THEN r
    ELSE IF (r + w) * (r + w) <= n THEN ISqrtFrom(n, r + w, w \div 2)
    ELSE ISqrtFrom(n, r, w \div 2)

ISqrt(n) == ISqrtFrom(n, 0, Pow2(Precision + 2 * ExpRange))

\* the magnitude nearest to the square root of n quanta^2
RoundSqrtMag(n) ==
    LET lo == Truncate(ISqrt(n))
        hi == lo + Pow2(ExpOf(ISqrt(n)))
    IN  IF lo * lo = n THEN lo
        ELSE IF 4 * n < (lo + hi) * (lo + hi) THEN lo
        ELSE IF 4 * n > (lo + hi) * (lo + hi) THEN hi
        ELSE IF EvenMag(lo) THEN lo
        ELSE hi

\* a.sqrt()
F64Sqrt(a) ==
    IF IsNaN(a) THEN F64NaN
    ELSE IF a.cls = "fin" /\ a.mag = 0 THEN a
    ELSE IF a.neg THEN F64NaN
    ELSE IF a.cls = "inf" THEN a
    ELSE F64Fin(FALSE, RoundSqrtMag(a.mag * One))


\* representative values of the format
Tiny == F64Fin(FALSE, 1)
Half == F64Fin(FALSE, One \div 2)
NegOne == F64Fin(TRUE, One)

(***************************************************************************)
(* Option<T>, and the outcome of a call that panics.                       *)
(***************************************************************************)
None == [tag |-> "None"]
Some(v) == [tag |-> "Some", val |-> v]
Panic == [tag |-> "Panic", msg |-> "Expected TouchArgs"]

(***************************************************************************)
(* The touch data model.                                                   *)
(***************************************************************************)
Touch == {"Start", "Move", "End", "Cancel"}

TouchArgs ==
    [device : Int, id : Int, x : F64, y : F64, z : F64,
     px : F64, py : F64, pz : F64, is_3d : BOOLEAN, touch : Touch]

\* derive(PartialEq) on TouchArgs: field by field
TouchArgsEq(a, b) ==
    /\ a.device = b.device
    /\ a.id = b.id
    /\ F64Eq(a.x, b.x)
    /\ F64Eq(a.y, b.y)
    /\ F64Eq(a.z, b.z)
    /\ F64Eq(a.px, b.px)
    /\ F64Eq(a.py, b.py)
    /\ F64Eq(a.pz, b.pz)
    /\ a.is_3d = b.is_3d
    /\ a.touch = b.touch

\* mutant of TouchArgs::new: the pressure stored in px instead of pz
TouchArgs_new_px(device, id, pos, pressure, touch) ==
    [device |-> device,
     id |-> id,
     x |-> pos[1],
     y |-> pos[2],
     z |-> F64Zero,
     is_3d |-> FALSE,
     px |-> pressure,
     py |-> F64Zero,
     pz |-> F64Zero,
     touch |-> touch]

\* TouchArgs::new
TouchArgs_new(device, id, pos, pressure, touch) ==
    [device |-> device,
     id |-> id,
     x |-> pos[1],
     y |-> pos[2],
     z |-> F64Zero,
     is_3d |-> FALSE,
     px |-> F64Zero,
     py |-> F64Zero,
     pz |-> pressure,
     touch |-> touch]

\* TouchArgs::new_3d
TouchArgs_new_3d(device, id, pos, pressure, touch) ==
    [device |-> device,
     id |-> id,
     x |-> pos[1],
     y |-> pos[2],
     z |-> pos[3],
     is_3d |-> TRUE,
     px |-> pressure[1],
     py |-> pressure[2],
     pz |-> pressure[3],
     touch |-> touch]

\* mutant of position: the coordinates swapped
position_swapped(self) == <<self.y, self.x>>

position(self) == <<self.x, self.y>>

position_3d(self) == <<self.x, self.y, self.z>>

\* mutant of pressure: the square root forgotten
pressure_no_sqrt(self) ==
    F64Add(F64Add(F64Mul(self.px, self.px), F64Mul(self.py, self.py)),
           F64Mul(self.pz, self.pz))

\* mutant of pressure: the y component forgotten
pressure_no_py(self) ==
    F64Sqrt(F64Add(F64Mul(self.px, self.px), F64Mul(self.pz, self.pz)))

pressure(self) ==
    F64Sqrt(F64Add(F64Add(F64Mul(self.px, self.px),
                          F64Mul(self.py, self.py)),
                   F64Mul(self.pz, self.pz)))

pressure_3d(self) == <<self.px, self.py, self.pz>>

(***************************************************************************)
(* The generic event capability.  GenericEvent and its implementations     *)
(* live outside touch.rs; they are modelled from the capability's          *)
(* contract.  An event is a container type together with the payload it    *)
(* holds; a payload is a type-erased value (&Any): its concrete type and   *)
(* its value.                                                              *)
(*   Input      holds a touch or a resize payload                          *)
(*   Event      wraps an Input payload, or holds a render payload          *)
(*   RenderOnly cannot represent a touch payload                           *)
(*   Mistagged  is Input with an inconsistent event_id: it reports the     *)
(*              touch tag for a resize payload                             *)
(***************************************************************************)
TOUCH == "piston/touch"
RESIZE == "piston/resize"
RENDER == "piston/render"

ContainerTypes == {"Input", "Event", "RenderOnly", "Mistagged"}

\* args as &Any
AsAny(args) == [type |-> "TouchArgs", val |-> args]
ResizeAny == [type |-> "ResizeArgs", val |-> [w |-> 0, h |-> 0]]
RenderAny == [type |-> "RenderArgs", val |-> [ext_dt |-> 0]]

\* any.downcast_ref::<TouchArgs>()
downcast_ref(any) == IF any.type = "TouchArgs" THEN Some(any.val) ELSE None

MkEvent(ctype, payload) == [ctype |-> ctype, payload |-> payload]

\* the container type has a variant for a touch payload
CanRepresentTouch(ctype) == ctype \in {"Input", "Event", "Mistagged"}

\* GenericEvent::event_id
event_id(self) ==
    IF self.payload.type = "TouchArgs" THEN TOUCH
    ELSE IF self.payload.type = "ResizeArgs"
    THEN IF self.ctype = "Mistagged" THEN TOUCH ELSE RESIZE
    ELSE RENDER

\* GenericEvent::with_args: calls f once with the payload held and returns
\* what f returns; a closure is a function on the payloads it can be given
with_args(self, f) == f[self.payload]

\* GenericEvent::from_args: a new value of old_event's container type
\* carrying the payload, None when the type cannot represent the tag
from_args(tag, any, old_event) ==
    IF tag = TOUCH /\ CanRepresentTouch(old_event.ctype)
    THEN Some(MkEvent(old_event.ctype, any))
    ELSE None

\* the events the tests start from, and their non-touch siblings
Sample2d == TouchArgs_new(0, 0, <<F64Zero, F64Zero>>, F64One, "Start")
Sample3d ==
    TouchArgs_new_3d(0, 0, <<F64Zero, F64Zero, F64Zero>>,
                     <<F64Zero, F64Zero, F64One>>, "Start")

InitEvents ==
    {MkEvent("Input", AsAny(Sample2d)),
     MkEvent("Input", AsAny(Sample3d)),
     MkEvent("Input", ResizeAny),
     MkEvent("Event", AsAny(Sample2d)),
     MkEvent("Event", RenderAny),
     MkEvent("RenderOnly", RenderAny),
     MkEvent("Mistagged", AsAny(Sample2d)),
     MkEvent("Mistagged", ResizeAny)}

(***************************************************************************)
(* The touch event capability, implemented for every GenericEvent.         *)
(* A call of touch is described by what it returns, the arguments the      *)
(* visitor was invoked with, in order, and how often with_args was called. *)
(***************************************************************************)
\* mutant of from_touch_args: old_event's payload passed instead of args
from_touch_args_old_payload(args, old_event) ==
    from_args(TOUCH, old_event.payload, old_event)

\* mutant of from_touch_args: another input kind's tag passed
from_touch_args_resize_tag(args, old_event) ==
    from_args(RESIZE, AsAny(args), old_event)

\* TouchEvent::from_touch_args
from_touch_args(args, old_event) == from_args(TOUCH, AsAny(args), old_event)

\* the visitors passed to touch: closures over TouchArgs
\*   clone    |t| t.clone()
\*   ids      |t| (t.device, t.id)
\*   rebuild  the closure of the tests: a new event from the fields read,
\*            with the event a as reference
VisitorApply(f, t) ==
    CASE f.name = "clone" -> t
      [] f.name = "ids" -> [device |-> t.device, id |-> t.id]
      [] f.name = "rebuild" ->
            IF t.is_3d
            THEN from_touch_args(
                     TouchArgs_new_3d(t.device, t.id, position_3d(t),
                                      pressure_3d(t), t.touch), f.a)
            ELSE from_touch_args(
                     TouchArgs_new(t.device, t.id, position(t),
                                   pressure(t), t.touch), f.a)

\* mutant of touch: the event_id check forgotten
touch_unchecked(self, f) ==
    LET closure ==
            [any \in {self.payload} |->
                LET d == downcast_ref(any)
                IN  IF d.tag = "Some"
                THEN [ret |-> Some(VisitorApply(f, d.val)),
                      seen |-> <<d.val>>]
                ELSE [ret |-> Panic, seen |-> <<>>]]
        r == with_args(self, closure)
    IN  [ret |-> r.ret, seen |-> r.seen, with_args |-> 1]

\* mutant of touch: a failed downcast answered with None
touch_swallow(self, f) ==
    IF event_id(self) # TOUCH
    THEN [ret |-> None, seen |-> <<>>, with_args |-> 0]
    ELSE LET closure ==
                 [any \in {self.payload} |->
                     LET d == downcast_ref(any)
                     IN  IF d.tag = "Some"
                     THEN [ret |-> Some(VisitorApply(f, d.val)),
                           seen |-> <<d.val>>]
                     ELSE [ret |-> None, seen |-> <<>>]]
             r == with_args(self, closure)
         IN  [ret |-> r.ret, seen |-> r.seen, with_args |-> 1]

\* mutant of touch: the visitor invoked twice
touch_twice(self, f) ==
    IF event_id(self) # TOUCH
    THEN [ret |-> None, seen |-> <<>>, with_args |-> 0]
    ELSE LET closure ==
                 [any \in {self.payload} |->
                     LET d == downcast_ref(any)
                     IN  IF d.tag = "Some"
                     THEN [ret |-> Some(VisitorApply(f, d.val)),
                           seen |-> <<d.val, d.val>>]
                     ELSE [ret |-> Panic, seen |-> <<>>]]
             r == with_args(self, closure)
         IN  [ret |-> r.ret, seen |-> r.seen, with_args |-> 1]

\* TouchEvent::touch
touch(self, f) ==
    IF event_id(self) # TOUCH
    THEN [ret |-> None, seen |-> <<>>, with_args |-> 0]
    ELSE LET closure ==
                 [any \in {self.payload} |->
                     LET d == downcast_ref(any)
                     IN  IF d.tag = "Some"
                     THEN [ret |-> Some(VisitorApply(f, d.val)),
                           seen |-> <<d.val>>]
                     ELSE [ret |-> Panic, seen |-> <<>>]]
             r == with_args(self, closure)
         IN  [ret |-> r.ret, seen |-> r.seen, with_args |-> 1]

\* mutant of touch_args: a payload that is no TouchArgs answered with None
touch_args_swallow(self) ==
    IF self.payload.type # "TouchArgs"
    THEN [ret |-> None, seen |-> <<>>, with_args |-> 0]
    ELSE touch(self, [name |-> "clone"])

\* TouchEvent::touch_args
touch_args(self) == touch(self, [name |-> "clone"])

(***************************************************************************)
(* The program state: what a caller of the module holds.                   *)
(*   args       the sample built by new or new_3d, an Option                *)
(*   inp        the arguments the constructor was called with              *)
(*   got        what the four accessors returned for args                  *)
(*   old_event  the reference event the caller holds                       *)
(*   made       the last call of from_touch_args: its arguments and result *)
(*   call       the last call of touch or touch_args: receiver, visitor,   *)
(*              result, visitor invocations, with_args calls               *)
(***************************************************************************)
VARIABLES args, inp, got, old_event, made, call

vars == <<args, inp, got, old_event, made, call>>

Devices == 0..MaxDevice
Ids == 0..MaxId

\* the process has aborted in a panic
Aborted == call.tag = "Some" /\ call.val.ret.tag = "Panic"

\* inputs of the event machine
CoordSamples == {F64Zero, F64One, F64NaN}
Pos2Inputs == {<<a, b>> : a \in CoordSamples, b \in CoordSamples}
Pos3Inputs ==
    {<<a, b, c>> : a \in CoordSamples, b \in CoordSamples, c \in CoordSamples}
Pressure2Inputs == {F64Zero, F64One, NegOne, Tiny, F64NaN}
Pressure3Inputs ==
    {<<F64Zero, F64Zero, F64One>>, <<Half, Half, F64Zero>>,
     <<F64Zero, F64NaN, F64Zero>>, <<NegOne, F64Zero, F64Zero>>}

\* inputs of the data-model machine
PressureData3 == {F64Zero, Tiny, Half, NegOne, F64NaN}
Pressure3Data ==
    {<<a, b, c>> : a \in PressureData3, b \in PressureData3,
                   c \in PressureData3}

Init ==
    /\ args = None
    /\ inp = None
    /\ got = None
    /\ old_event \in InitEvents
    /\ made = None
    /\ call = None

\* let t = TouchArgs::new(device, id, pos, pressure, touch), the pressure
\* drawn from Pressures
New(Pressures) ==
    /\ ~Aborted
    /\ args = None
    /\ \E device \in Devices, id \in Ids, pos \in Pos2Inputs,
          pressure_ \in Pressures, touch_ \in Touch :
          /\ args' = Some(TouchArgs_new(device, id, pos, pressure_, touch_))
          /\ inp' = Some([fn |-> "new", device |-> device, id |-> id,
                          pos |-> pos, pressure |-> <<pressure_>>,
                          touch |-> touch_])
    /\ UNCHANGED <<got, old_event, made, call>>

\* let t = TouchArgs::new_3d(device, id, pos, pressure, touch), the pressure
\* drawn from Pressures
New3d(Pressures) ==
    /\ ~Aborted
    /\ args = None
    /\ \E device \in Devices, id \in Ids, pos \in Pos3Inputs,
          pressure_ \in Pressures, touch_ \in Touch :
          /\ args' = Some(TouchArgs_new_3d(device, id, pos, pressure_,
                                           touch_))
          /\ inp' = Some([fn |-> "new_3d", device |-> device, id |-> id,
                          pos |-> pos, pressure |-> pressure_,
                          touch |-> touch_])
    /\ UNCHANGED <<got, old_event, made, call>>

\* t.position(), t.position_3d(), t.pressure(), t.pressure_3d()
ReadAccessors ==
    /\ args.tag = "Some"
    /\ got = None
    /\ got' = Some([position |-> position(args.val),
                    position_3d |-> position_3d(args.val),
                    pressure |-> pressure(args.val),
                    pressure_3d |-> pressure_3d(args.val)])
    /\ UNCHANGED <<args, inp, old_event, made, call>>

\* let a = TouchEvent::from_touch_args(&t, &old_event)
FromTouchArgs ==
    /\ ~Aborted
    /\ args.tag = "Some"
    /\ made = None
    /\ made' = Some([args |-> args.val, old |-> old_event,
                     ret |-> from_touch_args(args.val, old_event)])
    /\ call' = None
    /\ UNCHANGED <<args, inp, got, old_event>>

\* the events the caller can call touch on: the reference event and the
\* event from_touch_args returned
Receivers ==
    {old_event} \cup
        (IF made.tag = "Some" /\ made.val.ret.tag = "Some"
         THEN {made.val.ret.val} ELSE {})

Visitors == {[name |-> "clone"], [name |-> "ids"]}

\* self.touch(f)
TouchCall(self, f) ==
    /\ ~Aborted
    /\ call' = Some([op |-> "touch", self |-> self, f |-> f]
                        @@ touch(self, f))
    /\ UNCHANGED <<args, inp, got, old_event, made>>

\* self.touch_args()
TouchArgsCall(self) ==
    /\ ~Aborted
    /\ call' = Some([op |-> "touch_args", self |-> self,
                     f |-> [name |-> "clone"]] @@ touch_args(self))
    /\ UNCHANGED <<args, inp, got, old_event, made>>

\* the body of the tests: let b = a.unwrap().touch(|t| from_touch_args(
\*     &TouchArgs::new(t.device, t.id, t.position(), t.pressure(), ..),
\*     a.as_ref().unwrap())).unwrap()
\* (the tests build a with the phase Touch::Start and pass Touch::Start)
test_touch ==
    /\ ~Aborted
    /\ made.tag = "Some"
    /\ made.val.ret.tag = "Some"
    /\ LET a == made.val.ret.val
           f == [name |-> "rebuild", a |-> a]
       IN  call' = Some([op |-> "test", self |-> a, f |-> f] @@ touch(a, f))
    /\ UNCHANGED <<args, inp, got, old_event, made>>

Next ==
    \/ New(Pressure2Inputs)
    \/ New3d(Pressure3Inputs)
    \/ FromTouchArgs
    \/ \E self \in Receivers, f \in Visitors : TouchCall(self, f)
    \/ \E self \in Receivers : TouchArgsCall(self)
    \/ test_touch

Spec == Init /\ [][Next]_vars

\* the data model alone: every f64 as the 2D pressure
InitData ==
    /\ args = None
    /\ inp = None
    /\ got = None
    /\ old_event = MkEvent("Input", AsAny(Sample2d))
    /\ made = None
    /\ call = None

NextData ==
    \/ New(F64)
    \/ New3d(Pressure3Data)
    \/ ReadAccessors

SpecData == InitData /\ [][NextData]_vars

(***************************************************************************)
(* Vocabulary of the properties.                                           *)
(***************************************************************************)
\* no f64 field of t is NaN
NoNaN(t) ==
    /\ ~IsNaN(t.x) /\ ~IsNaN(t.y) /\ ~IsNaN(t.z)
    /\ ~IsNaN(t.px) /\ ~IsNaN(t.py) /\ ~IsNaN(t.pz)

\* [f64; n] == [f64; n]
ArrayEq(a, b) ==
    /\ Len(a) = Len(b)
    /\ \A i \in 1..Len(a) : F64Eq(a[i], b[i])

\* a == b on events, as assert_eq! compares them: same variant, payloads
\* compared with TouchArgs's PartialEq
EventEq(a, b) ==
    /\ a.ctype = b.ctype
    /\ a.payload.type = b.payload.type
    /\ IF a.payload.type = "TouchArgs"
       THEN TouchArgsEq(a.payload.val, b.payload.val)
       ELSE a.payload = b.payload

HoldsTouchArgs(e) == e.payload.type = "TouchArgs"

\* the last call was self.touch(f)
Touched == call.tag = "Some" /\ call.val.op = "touch"

\* from_touch_args returned Some(e)
MadeSome == made.tag = "Some" /\ made.val.ret.tag = "Some"

\* the last call was e.touch(|t| t.clone()) on the event e that
\* from_touch_args returned
RoundTripCase ==
    /\ Touched
    /\ call.val.f.name = "clone"
    /\ MadeSome
    /\ call.val.self = made.val.ret.val

\* every TouchArgs value the program holds
HeldTouchArgs ==
    (IF args.tag = "Some" THEN {args.val} ELSE {})
    \cup (IF HoldsTouchArgs(old_event) THEN {old_event.payload.val} ELSE {})
    \cup (IF made.tag = "Some" THEN {made.val.args} ELSE {})
    \cup (IF MadeSome /\ HoldsTouchArgs(made.val.ret.val)
          THEN {made.val.ret.val.payload.val} ELSE {})
    \cup (IF call.tag = "Some"
          THEN {call.val.seen[i] : i \in 1..Len(call.val.seen)} ELSE {})
    \cup (IF call.tag = "Some" /\ call.val.f.name = "clone"
             /\ call.val.ret.tag = "Some"
          THEN {call.val.ret.val} ELSE {})

(***************************************************************************)
(* C1.  Round trip: when from_touch_args(args, old) returns Some(e), then  *)
(* e.touch(|t| t.clone()) == Some(args).                                   *)
(***************************************************************************)
\* C1 as stated, == being TouchArgs's PartialEq: refuted by a NaN field
C1_RoundTripEq ==
    RoundTripCase =>
        /\ call.val.ret.tag = "Some"
        /\ TouchArgsEq(call.val.ret.val, made.val.args)

\* C1 amended: the payload read back is a field-for-field copy of args, the
\* visitor having run once; it compares == to args exactly when no f64
\* field of args is NaN
C1_RoundTrip ==
    RoundTripCase =>
        /\ call.val.ret = Some(made.val.args)
        /\ call.val.seen = <<made.val.args>>
        /\ TouchArgsEq(call.val.ret.val, made.val.args)
               <=> NoNaN(made.val.args)

C1_Witness ==
    /\ RoundTripCase
    /\ made.val.old.ctype = "Event"
    /\ made.val.args.is_3d
    /\ NoNaN(made.val.args)
    /\ made.val.args # Sample3d
    /\ call.val.ret = Some(made.val.args)

(***************************************************************************)
(* C2.  Negative path: touch on an event whose event_id is not TOUCH       *)
(* returns None, never invokes the visitor and never calls with_args.      *)
(***************************************************************************)
C2_NegativePath ==
    (Touched /\ event_id(call.val.self) # TOUCH) =>
        /\ call.val.ret = None
        /\ call.val.seen = <<>>
        /\ call.val.with_args = 0

C2_Witness ==
    /\ Touched
    /\ event_id(call.val.self) = RESIZE
    /\ call.val.ret = None

(***************************************************************************)
(* C3.  Fatal mismatch: touch on an event whose event_id is TOUCH but      *)
(* whose payload is not a TouchArgs panics without invoking the visitor.   *)
(***************************************************************************)
C3_FatalMismatch ==
    (Touched /\ event_id(call.val.self) = TOUCH
             /\ ~HoldsTouchArgs(call.val.self)) =>
        /\ call.val.ret = Panic
        /\ call.val.seen = <<>>

C3_Witness ==
    /\ Touched
    /\ call.val.self = MkEvent("Mistagged", ResizeAny)
    /\ Aborted

(***************************************************************************)
(* C4.  Success path: touch on an event whose event_id is TOUCH and whose  *)
(* payload is the TouchArgs p invokes the visitor exactly once, with p,    *)
(* and returns Some of what the visitor returned.                          *)
(***************************************************************************)
C4_SuccessPath ==
    (Touched /\ event_id(call.val.self) = TOUCH
             /\ HoldsTouchArgs(call.val.self)) =>
        /\ call.val.seen = <<call.val.self.payload.val>>
        /\ call.val.ret =
               Some(VisitorApply(call.val.f, call.val.self.payload.val))
        /\ call.val.with_args = 1

C4_Witness ==
    /\ Touched
    /\ call.val.f.name = "ids"
    /\ MadeSome
    /\ call.val.self = made.val.ret.val
    /\ call.val.ret = Some([device |-> 1, id |-> 0])

(***************************************************************************)
(* C5.  from_touch_args(args, old_event) returns what from_args returns    *)
(* for the TOUCH tag, args as payload and old_event: None exactly when the *)
(* container type cannot represent a touch payload, never a failure of its *)
(* own, and old_event and args are unchanged by the call.                  *)
(***************************************************************************)
C5_Delegates ==
    made.tag = "Some" =>
        /\ made.val.ret =
               from_args(TOUCH, AsAny(made.val.args), made.val.old)
        /\ made.val.ret = None <=> ~CanRepresentTouch(made.val.old.ctype)
        /\ made.val.ret # None =>
               made.val.ret =
                   Some(MkEvent(made.val.old.ctype, AsAny(made.val.args)))
        /\ old_event = made.val.old
        /\ args = Some(made.val.args)

C5_Witness ==
    /\ made.tag = "Some"
    /\ made.val.old.ctype = "RenderOnly"
    /\ made.val.ret = None
    /\ old_event = MkEvent("RenderOnly", RenderAny)

(***************************************************************************)
(* C6.  touch_args() is touch(|args| args.clone()): None when the tag is   *)
(* not TOUCH, Some(copy of the stored TouchArgs) when the tag is TOUCH and *)
(* the payload is a TouchArgs, a panic when the tag is TOUCH and the       *)
(* payload is not a TouchArgs.                                             *)
(***************************************************************************)
C6_TouchArgs ==
    (call.tag = "Some" /\ call.val.op = "touch_args") =>
        LET self == call.val.self
        IN  /\ call.val.ret = touch(self, [name |-> "clone"]).ret
            /\ event_id(self) # TOUCH => call.val.ret = None
            /\ (event_id(self) = TOUCH /\ HoldsTouchArgs(self)) =>
                   call.val.ret = Some(self.payload.val)
            /\ (event_id(self) = TOUCH /\ ~HoldsTouchArgs(self)) =>
                   call.val.ret = Panic

C6_Witness ==
    /\ call.tag = "Some"
    /\ call.val.op = "touch_args"
    /\ MadeSome
    /\ call.val.self = made.val.ret.val
    /\ made.val.args.is_3d
    /\ call.val.ret = Some(made.val.args)

(***************************************************************************)
(* C7.  Rebuild through accessors: reading the event a that                *)
(* from_touch_args returned back with touch and re-creating an event from  *)
(* the fields read, with a as reference, yields Some(b) with b == a.       *)
(***************************************************************************)
Tested == call.tag = "Some" /\ call.val.op = "test"

\* C7 as stated, b equal to a read as b being the same value as a (the
\* reading most favourable to it; under == a NaN field refutes it as well):
\* refuted by a negative 2D pressure and by one whose square underflows
C7_RebuildEq ==
    Tested => call.val.ret = Some(Some(call.val.self))

\* C7 amended: the rebuild yields Some(b), b of a's container type with a's
\* device, id, phase and dimension; b is the same value as a exactly when
\* the touch is 3D or pressure() returns the pressure scalar stored, and
\* b == a exactly when, in addition, no f64 field of a is NaN
C7_Rebuild ==
    Tested =>
        /\ call.val.ret.tag = "Some"
        /\ call.val.ret.val.tag = "Some"
        /\ LET a == call.val.self
               b == call.val.ret.val.val
               t == a.payload.val
           IN  /\ b.ctype = a.ctype
               /\ HoldsTouchArgs(b)
               /\ b.payload.val.device = t.device
               /\ b.payload.val.id = t.id
               /\ b.payload.val.touch = t.touch
               /\ b.payload.val.is_3d = t.is_3d
               /\ b = a <=> (t.is_3d \/ pressure(t) = t.pz)
               /\ EventEq(b, a) <=>
                      /\ NoNaN(t)
                      /\ t.is_3d \/ F64Eq(pressure(t), t.pz)

C7_Witness ==
    /\ Tested
    /\ ~call.val.self.payload.val.is_3d
    /\ call.val.self.payload.val.pz = F64One
    /\ call.val.self.payload.val.x = F64One
    /\ call.val.self.payload.val.y = F64Zero
    /\ call.val.self.payload.val.touch = "Move"
    /\ call.val.ret = Some(Some(call.val.self))

(***************************************************************************)
(* C8.  Data-model invariant: every TouchArgs the program holds satisfies  *)
(* is_3d == false implies z == 0, px == 0 and py == 0.                     *)
(***************************************************************************)
C8_Flat2d ==
    \A t \in HeldTouchArgs :
        ~t.is_3d =>
            /\ F64Eq(t.z, F64Zero)
            /\ F64Eq(t.px, F64Zero)
            /\ F64Eq(t.py, F64Zero)

C8_Witness ==
    /\ Touched
    /\ MadeSome
    /\ call.val.self = made.val.ret.val
    /\ Len(call.val.seen) = 1
    /\ ~call.val.seen[1].is_3d
    /\ call.val.seen[1].pz = NegOne
    /\ call.val.seen[1].x = F64One
    /\ call.val.seen[1] \in HeldTouchArgs

(***************************************************************************)
(* C9.  2D constructor: t = TouchArgs::new(device, id, pos2d, pressure,    *)
(* phase) has position() == pos2d, pressure() == |pressure|,               *)
(* pressure_3d() == [0, 0, pressure], is_3d == false and the device, id    *)
(* and phase given.                                                        *)
(***************************************************************************)
NewRead == inp.tag = "Some" /\ inp.val.fn = "new" /\ got.tag = "Some"

\* p * p is exact enough: p is finite and its square neither overflows nor
\* falls below the smallest normal number
NormalSquare(p) ==
    /\ p.cls = "fin"
    /\ p.mag * p.mag >= MinNormal * One
    /\ 2 * p.mag * p.mag < One * (2 * MaxMag + MaxUlp)

\* C9 as stated, == read as being the same value (the reading most
\* favourable to it; under f64's == a NaN argument refutes it as well):
\* refuted by a pressure whose square underflows or overflows
C9_NewEq ==
    NewRead =>
        /\ got.val.position = inp.val.pos
        /\ got.val.pressure = F64Abs(inp.val.pressure[1])
        /\ got.val.pressure_3d = <<F64Zero, F64Zero, inp.val.pressure[1]>>
        /\ ~args.val.is_3d
        /\ args.val.device = inp.val.device
        /\ args.val.id = inp.val.id
        /\ args.val.touch = inp.val.touch

\* p * p rounds to zero
SquareVanishes(p) == p.cls = "fin" /\ 2 * p.mag * p.mag <= One

\* p * p rounds to infinity
SquareOverflows(p) ==
    p.cls = "fin" /\ 2 * p.mag * p.mag >= One * (2 * MaxMag + MaxUlp)

\* C9 amended: position() and pressure_3d() return the arguments as given
\* (== to them exactly when they hold no NaN), is_3d is false, device, id
\* and phase are the arguments, and pressure() is |pressure| when pressure
\* is zero, infinite, or finite with a square that neither overflows nor
\* underflows; it is NaN for a NaN pressure, 0 when the square rounds to
\* zero and infinite when the square overflows
C9_New ==
    NewRead =>
        LET p == inp.val.pressure[1]
        IN  /\ got.val.position = inp.val.pos
            /\ ArrayEq(got.val.position, inp.val.pos) <=>
                   (~IsNaN(inp.val.pos[1]) /\ ~IsNaN(inp.val.pos[2]))
            /\ got.val.pressure_3d = <<F64Zero, F64Zero, p>>
            /\ ~args.val.is_3d
            /\ args.val.device = inp.val.device
            /\ args.val.id = inp.val.id
            /\ args.val.touch = inp.val.touch
            /\ (NormalSquare(p) \/ p.cls = "inf"
                    \/ (p.cls = "fin" /\ p.mag = 0)) =>
                   got.val.pressure = F64Abs(p)
            /\ IsNaN(p) => IsNaN(got.val.pressure)
            /\ SquareVanishes(p) => got.val.pressure = F64Zero
            /\ SquareOverflows(p) => got.val.pressure = F64Inf(FALSE)

C9_Witness ==
    /\ NewRead
    /\ inp.val.pressure[1].neg
    /\ NormalSquare(inp.val.pressure[1])
    /\ inp.val.pressure[1].mag # One
    /\ ~EvenMag(inp.val.pressure[1].mag)
    /\ got.val.pressure = F64Abs(inp.val.pressure[1])
    /\ inp.val.pos = <<F64One, F64Zero>>

(***************************************************************************)
(* C10.  3D constructor: for a pressure vector of length at most 1,        *)
(* t = TouchArgs::new_3d(device, id, pos3d, pressure_vec3, phase) has      *)
(* position_3d() == pos3d, pressure_3d() == pressure_vec3, pressure() ==   *)
(* the Euclidean norm of pressure_vec3, position() == the first two        *)
(* components of pos3d, and is_3d == true.                                 *)
(***************************************************************************)
New3dRead == inp.tag = "Some" /\ inp.val.fn = "new_3d" /\ got.tag = "Some"

\* the squared length of a finite vector, in quanta^2
NormSq(v) == v[1].mag * v[1].mag + v[2].mag * v[2].mag + v[3].mag * v[3].mag

\* |v| <= 1
InUnitBall(v) ==
    /\ \A i \in 1..3 : v[i].cls = "fin"
    /\ NormSq(v) <= One * One

\* the three squares and the two sums of pressure() are computed exactly
ExactSquares(v) ==
    /\ \A i \in 1..3 :
           /\ (v[i].mag * v[i].mag) % One = 0
           /\ IsMag((v[i].mag * v[i].mag) \div One)
    /\ IsMag((v[1].mag * v[1].mag + v[2].mag * v[2].mag) \div One)
    /\ IsMag(NormSq(v) \div One)

\* r is a value of the format nearest to the square root of n2 quanta^2
NearestToSqrt(r, n2) ==
    /\ r.cls = "fin"
    /\ ~r.neg
    /\ \A m \in Mags :
           /\ m > r.mag => 4 * n2 <= (r.mag + m) * (r.mag + m)
           /\ m < r.mag => 4 * n2 >= (r.mag + m) * (r.mag + m)

\* C10 as stated, == read as being the same value (the reading most
\* favourable to it; under f64's == a NaN position refutes it as well):
\* refuted by a vector whose squares underflow and by one whose norm is not
\* a value of the format
C10_New3dEq ==
    (New3dRead /\ InUnitBall(inp.val.pressure)) =>
        /\ got.val.position_3d = inp.val.pos
        /\ got.val.pressure_3d = inp.val.pressure
        /\ got.val.pressure.cls = "fin"
        /\ got.val.pressure.mag * got.val.pressure.mag =
               NormSq(inp.val.pressure)
        /\ got.val.position = <<inp.val.pos[1], inp.val.pos[2]>>
        /\ args.val.is_3d

\* C10 amended: position_3d(), pressure_3d() and position() return the
\* arguments as given, is_3d is true, and pressure() is the f64 nearest to
\* the Euclidean norm (the norm itself when it is an f64) whenever the
\* squares and sums it computes are exact; it is 0 when all three squares
\* round to zero
C10_New3d ==
    (New3dRead /\ InUnitBall(inp.val.pressure)) =>
        /\ got.val.position_3d = inp.val.pos
        /\ ArrayEq(got.val.position_3d, inp.val.pos) <=>
               \A i \in 1..3 : ~IsNaN(inp.val.pos[i])
        /\ got.val.pressure_3d = inp.val.pressure
        /\ ArrayEq(got.val.pressure_3d, inp.val.pressure)
        /\ got.val.position = <<inp.val.pos[1], inp.val.pos[2]>>
        /\ args.val.is_3d
        /\ ExactSquares(inp.val.pressure) =>
               NearestToSqrt(got.val.pressure, NormSq(inp.val.pressure))
        /\ (\A i \in 1..3 : SquareVanishes(inp.val.pressure[i])) =>
               got.val.pressure = F64Zero

C10_Witness ==
    /\ New3dRead
    /\ InUnitBall(inp.val.pressure)
    /\ ExactSquares(inp.val.pressure)
    /\ inp.val.pressure = <<Half, Half, Half>>
    /\ inp.val.pos = <<F64One, F64Zero, F64One>>
    /\ NearestToSqrt(got.val.pressure, NormSq(inp.val.pressure))

====
